---------------------------- MODULE Spec2Model ----------------------------
(***************************************************************************)
(* Movie recommender (recommender.py, app.py): title cleaning, TF-IDF      *)
(* title search and the co-preference ranking, as a state machine.         *)
(*                                                                         *)
(* A string is a sequence of one-character strings.  A value that may be   *)
(* missing (None / NaN) is a record [isna, str].  Fractions are kept as    *)
(* exact [num, den] pairs and compared by cross-multiplication.            *)
(***************************************************************************)
EXTENDS Integers, Sequences, FiniteSets, TLC

VARIABLES movies, ratings, call, result

vars == <<movies, ratings, call, result>>

(***************************************************************************)
(* Bounds of the model.                                                    *)
(***************************************************************************)
MaxLen == 3

(***************************************************************************)
(* Characters.                                                             *)
(***************************************************************************)
LowerLetters ==
  <<"a", "b", "c", "d", "e", "f", "g", "h", "i", "j", "k", "l", "m",
    "n", "o", "p", "q", "r", "s", "t", "u", "v", "w", "x", "y", "z">>

UpperLetters ==
  <<"A", "B", "C", "D", "E", "F", "G", "H", "I", "J", "K", "L", "M",
    "N", "O", "P", "Q", "R", "S", "T", "U", "V", "W", "X", "Y", "Z">>

Digits == {"0", "1", "2", "3", "4", "5", "6", "7", "8", "9"}

Range(s) == {s[i] : i \in DOMAIN s}

AsciiWhitespace == {" ", "\t"}

AsciiPunctuation == {"(", ")", "!", "-", ":", ",", "."}

AsciiChars ==
  Range(LowerLetters) \cup Range(UpperLetters) \cup Digits
    \cup AsciiWhitespace \cup AsciiPunctuation

\* The characters the model draws its strings from: a letter, the second
\* letter of the stop word "an", an upper-case letter, a digit, a blank, a
\* tab, a punctuation mark and an accented letter.
Alphabet == {"a", "n", "A", "1", " ", "\t", "(", "é"}

\* All strings over alphabet S of length at most n.
StringsUpTo(S, n) == UNION {[1..k -> S] : k \in 0..n}

None == [isna |-> TRUE, str |-> <<>>]

Str(s) == [isna |-> FALSE, str |-> s]

AmelieTitle ==
  <<"A", "m", "é", "l", "i", "e", " ", "(", "1", "9", "9", "6", ")">>

(***************************************************************************)
(* clean_title                                                             *)
(***************************************************************************)
\* unicodedata.normalize("NFKD", c) for one character: a precomposed
\* accented letter decomposes into the base letter and a combining mark.
NFKD(c) == IF c = "é" THEN <<"e", "U+0301">> ELSE <<c>>

RECURSIVE normalize(_)
normalize(s) ==
  IF s = <<>> THEN <<>> ELSE NFKD(Head(s)) \o normalize(Tail(s))

\* s.encode("ascii", "ignore").decode("ascii"): non-ASCII characters vanish.
IsAscii(c) == c \in AsciiChars

encode_ascii_ignore(s) == SelectSeq(s, IsAscii)

lower_char(c) ==
  IF \E i \in DOMAIN UpperLetters : UpperLetters[i] = c
    THEN LowerLetters[CHOOSE i \in DOMAIN UpperLetters : UpperLetters[i] = c]
    ELSE c

lower(s) == [i \in DOMAIN s |-> lower_char(s[i])]

\* str.strip(): drop leading and trailing whitespace.
RECURSIVE lstrip(_)
lstrip(s) ==
  IF s # <<>> /\ Head(s) \in AsciiWhitespace THEN lstrip(Tail(s)) ELSE s

RECURSIVE rstrip(_)
rstrip(s) ==
  IF s # <<>> /\ s[Len(s)] \in AsciiWhitespace
    THEN rstrip(SubSeq(s, 1, Len(s) - 1))
    ELSE s

strip(s) == rstrip(lstrip(s))

\* [^0-9a-z ]
NotAlnumSpace(c) == c \notin (Digits \cup Range(LowerLetters) \cup {" "})

\* \s
IsSpace(c) == c \in AsciiWhitespace

\* The two character classes of the substitutions.
InClass(class, c) ==
  IF class = "[^0-9a-z ]" THEN NotAlnumSpace(c) ELSE IsSpace(c)

\* re.sub(class + "+", " ", s): every maximal run of characters of the
\* class becomes one blank.
RECURSIVE sub_runs(_, _)
sub_runs(class, s) ==
  IF s = <<>> THEN <<>>
  ELSE IF InClass(class, Head(s))
    THEN IF Len(s) > 1 /\ InClass(class, s[2])
           THEN sub_runs(class, Tail(s))
           ELSE <<" ">> \o sub_runs(class, Tail(s))
    ELSE <<Head(s)>> \o sub_runs(class, Tail(s))

\* The strip() of line 134 runs before the two substitutions.
clean_title(title) ==
  IF title.isna THEN <<>>
  ELSE LET t1 == normalize(title.str)
           t2 == encode_ascii_ignore(t1)
           t3 == strip(lower(t2))
           t4 == sub_runs("[^0-9a-z ]", t3)
           t5 == sub_runs("\\s", t4)
       IN  t5

(***************************************************************************)
(* Specification of the title normaliser: one call of clean_title on any   *)
(* title of the bounded input set.                                         *)
(***************************************************************************)
NoCall == [op |-> "none"]

TitleInputs ==
  {None, Str(AmelieTitle)} \cup {Str(s) : s \in StringsUpTo(Alphabet, MaxLen)}

InitNormalize ==
  /\ movies = <<>>
  /\ ratings = <<>>
  /\ call = NoCall
  /\ result = <<>>

\* A Streamlit rerun starts the script afresh: the value the last call
\* returned is a local of the finished run and is gone.
Rerun ==
  /\ call # NoCall
  /\ call' = NoCall
  /\ result' = <<>>
  /\ UNCHANGED <<movies, ratings>>

CleanTitle ==
  \E title \in TitleInputs :
    /\ call = NoCall
    /\ call' = [op |-> "clean_title", title |-> title]
    /\ result' = clean_title(title)
    /\ UNCHANGED <<movies, ratings>>

NextNormalize == CleanTitle \/ Rerun

SpecNormalize == InitNormalize /\ [][NextNormalize]_vars

(***************************************************************************)
(* build_vectorizer: TfidfVectorizer(ngram_range=(1, 2),                   *)
(* stop_words="english", min_df=2) fitted on the clean_title column.       *)
(***************************************************************************)
MaxMovies == 3

MaxQueryLen == 2

MaxTopN == 3

\* Similarities and thresholds are k / ScoreScale for k in 0..ScoreScale.
ScoreScale == 2

min_df == 2

\* \w of the default token_pattern (?u)\b\w\w+\b
IsWordChar(c) ==
  c \in (Digits \cup Range(LowerLetters) \cup Range(UpperLetters) \cup {"_"})

\* The tokens of s: the maximal runs of word characters of length >= 2.
\* cur is the run being read.
RECURSIVE tokenize(_, _)
tokenize(s, cur) ==
  IF s = <<>>
    THEN IF Len(cur) >= 2 THEN <<cur>> ELSE <<>>
    ELSE IF IsWordChar(Head(s))
      THEN tokenize(Tail(s), Append(cur, Head(s)))
      ELSE (IF Len(cur) >= 2 THEN <<cur>> ELSE <<>>) \o tokenize(Tail(s), <<>>)

\* The entries of sklearn's ENGLISH_STOP_WORDS that the model's strings can
\* spell, and a few more for reference.
ENGLISH_STOP_WORDS ==
  {<<"a", "n">>, <<"a", "n", "d">>, <<"o", "f">>, <<"t", "h", "e">>}

NotStopWord(tok) == tok \notin ENGLISH_STOP_WORDS

\* Unigrams, then bigrams of consecutive tokens left after the stop-word
\* filter.  A term is a sequence of one or two tokens.
word_ngrams(toks) ==
  [i \in 1..Len(toks) |-> <<toks[i]>>]
    \o [i \in 1..(Len(toks) - 1) |-> <<toks[i], toks[i + 1]>>]

analyzer(doc) == word_ngrams(SelectSeq(tokenize(doc, <<>>), NotStopWord))

DocFreq(term, corpus) ==
  Cardinality({i \in DOMAIN corpus : term \in Range(analyzer(corpus[i]))})

\* vectorizer.vocabulary_ after fit: the terms found in at least min_df
\* documents.
vocabulary(corpus) ==
  {term \in UNION {Range(analyzer(corpus[i])) : i \in DOMAIN corpus} :
     DocFreq(term, corpus) >= min_df}

Count(x, s) == Cardinality({i \in DOMAIN s : s[i] = x})

\* vectorizer.transform(doc): the term counts over the fitted vocabulary.
\* The idf weight of a term is a positive number that depends on the term
\* alone, so two documents have the same tf-idf row exactly when they have
\* the same counts, and a weight is zero exactly when the count is.
transform(doc, vocab) == [term \in vocab |-> Count(term, analyzer(doc))]

corpus_of(mv) == [i \in DOMAIN mv |-> mv[i].clean_title]

\* cosine_similarity(movie_vector, vectors).flatten().  The value is a
\* floating-point cosine; the model keeps of it that it lies in [0, 1], that
\* it is 0 exactly when the two vectors share no term, and that equal rows
\* get equal values.  CosineSims is the set of arrays with these properties:
\* one positive value for each distinct row that shares a term with the
\* query, 0 for the other rows.
SharesTerm(q, d) == \E term \in DOMAIN q : q[term] > 0 /\ d[term] > 0

CosineSims(mv, name) ==
  LET vocab == vocabulary(corpus_of(mv))
      q == transform(name, vocab)
      vectors == [i \in DOMAIN mv |-> transform(mv[i].clean_title, vocab)]
      matching == {vectors[i] : i \in {j \in DOMAIN mv : SharesTerm(q, vectors[j])}}
  IN  {[i \in DOMAIN mv |->
          IF SharesTerm(q, vectors[i]) THEN value[vectors[i]] ELSE 0] :
         value \in [matching -> 1..ScoreScale]}

(***************************************************************************)
(* search_movie                                                            *)
(***************************************************************************)
\* sims.argsort(): an index array that lists sims in ascending order.  The
\* default kind is not stable, so any ascending arrangement may come out.
argsort(sims) ==
  LET n == Len(sims)
  IN  {p \in Permutations(1..n) :
         \A i \in 1..(n - 1) : sims[p[i]] <= sims[p[i + 1]]}

\* a[-(k + 1):], an off-by-one slice.
last_n_off_by_one(a, k) ==
  IF k + 1 >= Len(a) THEN a ELSE SubSeq(a, Len(a) - k, Len(a))

\* a[-k:] for k > 0
last_n(a, k) == IF k >= Len(a) THEN a ELSE SubSeq(a, Len(a) - k + 1, Len(a))

\* The reversal left out: the slice stays in ascending order.
reversed_left_out(a) == a

\* a[::-1]
reversed(a) == [i \in 1..Len(a) |-> a[Len(a) + 1 - i]]

Max(S) == CHOOSE x \in S : \A y \in S : y <= x

\* The rows search_movie returns for one value of sims and of its argsort.
search_rows(mv, sims, order, top_n) ==
  LET idx == reversed(last_n(order, top_n))
  IN  [k \in 1..Len(idx) |->
         [index |-> idx[k], movieId |-> mv[idx[k]].movieId,
          title |-> mv[idx[k]].title, _score |-> sims[idx[k]]]]

\* search_movie without the test of the cleaned query (lines 159-160).
search_movie_no_empty_test(movie_name, mv, top_n, min_score) ==
  LET name == clean_title(movie_name)
  IN  UNION {
        IF Len(sims) = 0 THEN {<<>>}
        ELSE IF Max(Range(sims)) < min_score THEN {<<>>}
        ELSE {search_rows(mv, sims, order, top_n) : order \in argsort(sims)}
      : sims \in CosineSims(mv, name)}

\* The set of values search_movie may return.
search_movie(movie_name, mv, top_n, min_score) ==
  LET name == clean_title(movie_name)
  IN  IF strip(name) = <<>> THEN {<<>>}
      ELSE UNION {
             IF Len(sims) = 0 THEN {<<>>}
             ELSE IF Max(Range(sims)) < min_score THEN {<<>>}
             ELSE {search_rows(mv, sims, order, top_n) : order \in argsort(sims)}
           : sims \in CosineSims(mv, name)}

(***************************************************************************)
(* Specification of the title search: a catalog is loaded (load_app_data   *)
(* adds the clean_title column), the index is fitted, and search_movie is  *)
(* called with any query, top_n and min_score of the bounded sets.         *)
(***************************************************************************)
RawTitles ==
  {<<"a", "a">>, <<"A", "a", " ", "n", "a">>, <<"a", "n", " ", "(", "1", ")">>}

QueryAlphabet == {"a", " ", "("}

Queries == {None} \cup {Str(s) : s \in StringsUpTo(QueryAlphabet, MaxQueryLen)}

Movie(id, title) ==
  [movieId |-> id, title |-> title, clean_title |-> clean_title(Str(title))]

\* The catalogs of at most MaxMovies movies; the movie at position i has
\* movieId i.
Catalogs ==
  UNION {{[i \in 1..n |-> Movie(i, t[i])] : t \in [1..n -> RawTitles]}
           : n \in 1..MaxMovies}

\* vectorize_data: fitting fails (ValueError) on an empty vocabulary, and
\* the app stops.
IndexBuilt(mv) == vocabulary(corpus_of(mv)) # {}

InitSearch ==
  /\ movies \in {mv \in Catalogs : IndexBuilt(mv)}
  /\ ratings = <<>>
  /\ call = NoCall
  /\ result = <<>>

SearchMovie ==
  \E movie_name \in Queries, top_n \in 1..MaxTopN, min_score \in 0..ScoreScale :
    /\ call = NoCall
    /\ call' = [op |-> "search_movie", movie_name |-> movie_name,
                top_n |-> top_n, min_score |-> min_score]
    /\ result' \in search_movie(movie_name, movies, top_n, min_score)
    /\ UNCHANGED <<movies, ratings>>

NextSearch == SearchMovie \/ Rerun

SpecSearch == InitSearch /\ [][NextSearch]_vars

(***************************************************************************)
(* Properties of search_movie, checked under SpecSearch.                   *)
(***************************************************************************)
Searched == call.op = "search_movie"

\* C1: every row returned by search has a similarity score that is not
\* below minScore.  The code tests only the maximum of the similarities
\* against min_score, so the statement is violated.
C1_NoScoreBelowMinScore ==
  Searched => \A k \in DOMAIN result : result[k]._score >= call.min_score

C3_AtMostTopN == Searched => Len(result) <= call.top_n

\* A search over a catalog of more than topN movies returned exactly topN
\* rows.
C3_Witness ==
  /\ Searched
  /\ Len(movies) > call.top_n
  /\ Len(result) = call.top_n

\* The query is null or holds no letter and no digit (empty, blank, or
\* punctuation only).
NoAlphanumeric(q) ==
  \/ q.isna
  \/ \A i \in DOMAIN q.str :
       q.str[i] \notin
         (Digits \cup Range(LowerLetters) \cup Range(UpperLetters) \cup {"é"})

\* C4: search with a query whose normalized form is empty (null, empty,
\* whitespace-only or made only of non-alphanumeric characters) returns an
\* empty result.
C4_EmptyQueryEmptyResult ==
  (Searched /\ NoAlphanumeric(call.movie_name)) => result = <<>>

\* A search for a punctuation-only query with threshold 0 returned nothing.
C4_Witness ==
  /\ Searched
  /\ call.movie_name = Str(<<"(", " ">>)
  /\ call.min_score = 0
  /\ result = <<>>

(***************************************************************************)
(* find_similar_movies                                                     *)
(***************************************************************************)
MaxUserId == 2

MaxMovieId == 2

MaxRatings == 3

\* The wide tables hold up to HeadRows + MaxExtra liked movies.
MaxExtra == 1

LikedRating == 4

HeadRows == 20

Frac(n, d) == [num |-> n, den |-> d]

\* Comparison of two fractions with positive denominators.
FracLess(f, g) == f.num * g.den < g.num * f.den

FracEq(f, g) == f.num * g.den = g.num * f.den

\* The users who rated the movie at all: the rating test left out.
similar_users_any_rating(rt, movie_id) ==
  {rt[i].userId : i \in {j \in DOMAIN rt : rt[j].movieId = movie_id}}

\* ratings_df.loc[(movieId == movie_id) & (rating >= 4), "userId"].unique()
similar_users_of(rt, movie_id) ==
  {rt[i].userId :
     i \in {j \in DOMAIN rt :
              rt[j].movieId = movie_id /\ rt[j].rating >= LikedRating}}

\* ratings_df.loc[userId.isin(similar_users) & (rating >= 4), "movieId"]
sim_recs_of(rt, similar_users) ==
  SelectSeq(rt, LAMBDA r : r.userId \in similar_users /\ r.rating >= LikedRating)

\* s.value_counts()[m] on the movieId column: the number of ROWS of movie m.
value_counts(rows, m) ==
  Cardinality({i \in DOMAIN rows : rows[i].movieId = m})

MovieIdsOf(rows) == {rows[i].movieId : i \in DOMAIN rows}

\* The test sim_frac >= min_similar_fraction instead of >.
sim_frac_index_inclusive(sim_recs, n_similar, min_similar_fraction) ==
  {m \in MovieIdsOf(sim_recs) :
     ~FracLess(Frac(value_counts(sim_recs, m), n_similar), min_similar_fraction)}

\* sim_frac[sim_frac > min_similar_fraction].index
sim_frac_index(sim_recs, n_similar, min_similar_fraction) ==
  {m \in MovieIdsOf(sim_recs) :
     FracLess(min_similar_fraction, Frac(value_counts(sim_recs, m), n_similar))}

\* The baseline taken with rating > 4 instead of >= 4.
all_recs_strict(rt, index) ==
  SelectSeq(rt, LAMBDA r : r.movieId \in index /\ r.rating > LikedRating)

\* ratings_df.loc[movieId.isin(sim_frac.index) & (rating >= 4)]
all_recs_of(rt, index) ==
  SelectSeq(rt, LAMBDA r : r.movieId \in index /\ r.rating >= LikedRating)

\* len(all_recs) instead of nunique: rating rows counted, not users.
nunique_users_counts_rows(rows) == Len(rows)

\* all_recs["userId"].nunique()
nunique_users(rows) == Cardinality({rows[i].userId : i \in DOMAIN rows})

\* One row of rec_percentages: the two fractions joined on the movie id
\* (a movie missing from all_frac gets 0 by fillna), and the score, which is
\* similar / all when all > 0 and NaN, then 0, otherwise.
rec_row(m, sim_recs, n_similar, all_recs, num_all_users) ==
  LET similar == Frac(value_counts(sim_recs, m), n_similar)
      all == Frac(value_counts(all_recs, m), num_all_users)
  IN  [movieId |-> m, similar |-> similar, all |-> all,
       score |-> IF all.num > 0
                   THEN Frac(similar.num * all.den, similar.den * all.num)
                   ELSE Frac(0, 1)]

\* sort_values("score", ascending=False) uses an unstable sort: the order of
\* rows of equal score is not fixed.  The model lets it be either of the two
\* extreme orders, by ascending or by descending movie id.
TieBreaks == {"asc", "desc"}

Precedes(r, q, tie) ==
  \/ FracLess(q.score, r.score)
  \/ /\ FracEq(q.score, r.score)
     /\ IF tie = "asc" THEN r.movieId < q.movieId ELSE r.movieId > q.movieId

RECURSIVE sort_values(_, _)
sort_values(rows, tie) ==
  IF rows = {} THEN <<>>
  ELSE LET first == CHOOSE r \in rows :
                      \A q \in rows \ {r} : Precedes(r, q, tie)
       IN  <<first>> \o sort_values(rows \ {first}, tie)

\* head(n + 1), an off-by-one cut.
head_off_by_one(rows, n) ==
  IF Len(rows) <= n + 1 THEN rows ELSE SubSeq(rows, 1, n + 1)

\* df.head(n)
head(rows, n) == IF Len(rows) <= n THEN rows ELSE SubSeq(rows, 1, n)

\* The catalog rows joined to one row of df: with how="left" a row without
\* a match is kept, its title (and genres) missing.
merge_row(r, mv) ==
  LET matches == SelectSeq(mv, LAMBDA m : m.movieId = r.movieId)
  IN  IF matches = <<>>
        THEN <<[movieId |-> r.movieId, similar |-> r.similar, all |-> r.all,
                score |-> r.score, title |-> None]>>
        ELSE [k \in 1..Len(matches) |->
                [movieId |-> r.movieId, similar |-> r.similar, all |-> r.all,
                 score |-> r.score, title |-> Str(matches[k].title)]]

\* df.merge(movies_df, on="movieId", how="left")
RECURSIVE merge_left(_, _)
merge_left(df, mv) ==
  IF df = <<>> THEN <<>>
  ELSE merge_row(Head(df), mv) \o merge_left(Tail(df), mv)

\* The set of values find_similar_movies may return.
find_similar_movies(movie_id, mv, rt, min_similar_fraction) ==
  LET similar_users == similar_users_of(rt, movie_id)
      sim_recs == sim_recs_of(rt, similar_users)
      n_similar == Cardinality(similar_users)
      index == sim_frac_index(sim_recs, n_similar, min_similar_fraction)
      all_recs == all_recs_of(rt, index)
      num_all_users == nunique_users(all_recs)
      rec_percentages ==
        {rec_row(m, sim_recs, n_similar, all_recs, num_all_users) :
           m \in index \cup MovieIdsOf(all_recs)}
  IN  IF n_similar = 0 THEN {<<>>}
      ELSE IF sim_recs = <<>> THEN {<<>>}
      ELSE IF index = {} THEN {<<>>}
      ELSE IF num_all_users = 0 THEN {<<>>}
      ELSE {merge_left(head(sort_values(rec_percentages, tie), HeadRows), mv) :
              tie \in TieBreaks}

(***************************************************************************)
(* Specification of the ranking: a catalog and a ratings table are loaded  *)
(* and find_similar_movies is called with any seed and threshold of the    *)
(* bounded sets.                                                           *)
(***************************************************************************)
\* A rating below the liked threshold and one exactly on it.
RatingValues == {3, 4}

RatingRows ==
  [userId : 1..MaxUserId, movieId : 1..MaxMovieId, rating : RatingValues]

\* A total order on the rating rows.
RowKey(r) == (r.userId * (MaxMovieId + 1) + r.movieId) * 10 + r.rating

\* The tables of at most MaxRatings rows, the same row possibly several
\* times.  find_similar_movies reads the table through row filters, row
\* counts and sets of ids, which do not depend on the order of the rows, so
\* one order of each multiset of rows is kept.
SmallTables ==
  UNION {{rt \in [1..n -> RatingRows] :
            \A i \in 1..(n - 1) : RowKey(rt[i]) <= RowKey(rt[i + 1])}
           : n \in 0..MaxRatings}

\* User 1 likes the movies 1..w and user 2 likes the movies 2..k: more liked
\* movies than head keeps, with two different scores when the seed is 1.
WideTable(w, k) ==
  [i \in 1..w |-> [userId |-> 1, movieId |-> i, rating |-> 5]]
    \o [i \in 1..(k - 1) |-> [userId |-> 2, movieId |-> i + 1, rating |-> 4]]

WideTables ==
  {WideTable(w, k) : w \in (HeadRows - 1)..(HeadRows + MaxExtra), k \in {1, 3}}

\* User 1 likes the movies 1..w, user 2 likes movie w alone, and user 3 likes
\* a movie that user 1 did not rate: with seed 1 and w > HeadRows the
\* lowest score is that of movie w, which head cuts off.
TailTable(w) ==
  [i \in 1..w |-> [userId |-> 1, movieId |-> i, rating |-> 5]]
    \o <<[userId |-> 2, movieId |-> w, rating |-> 4],
         [userId |-> 3, movieId |-> w + 1, rating |-> 5]>>

TailTables == {TailTable(w) : w \in HeadRows..(HeadRows + MaxExtra)}

\* The ratings of the fixture scenario: users 1 and 2 like the movies 10 and
\* 20, user 3 rated movie 10 below the liked threshold.
FixtureRatings ==
  <<[userId |-> 1, movieId |-> 10, rating |-> 5],
    [userId |-> 1, movieId |-> 20, rating |-> 5],
    [userId |-> 2, movieId |-> 10, rating |-> 5],
    [userId |-> 2, movieId |-> 20, rating |-> 4],
    [userId |-> 3, movieId |-> 10, rating |-> 3]>>

RankTitle == <<"a", "a">>

\* The catalogs of the movies 1..n for every n (the movies above n are rated
\* but not in the catalog), a catalog that lists movie 1 twice (the code does
\* not check that ids are unique), and the catalog of all the movies of the
\* wide tables, and the catalog of the two movies of the fixture.
RankCatalogs ==
  {[i \in 1..n |-> Movie(i, RankTitle)] : n \in 0..MaxMovieId}
    \cup {<<Movie(1, RankTitle), Movie(1, RankTitle)>>}
    \cup {[i \in 1..(HeadRows + MaxExtra) |-> Movie(i, RankTitle)]}
    \cup {<<Movie(10, RankTitle), Movie(20, RankTitle)>>}

MinSimilarFractions == {Frac(0, 1), Frac(1, 10), Frac(1, 2), Frac(1, 1)}

InitRank ==
  /\ movies \in RankCatalogs
  /\ ratings \in SmallTables \cup WideTables \cup TailTables \cup {FixtureRatings}
  /\ call = NoCall
  /\ result = <<>>

FindSimilarMovies ==
  \E movie_id \in (1..MaxMovieId) \cup MovieIdsOf(ratings),
     min_similar_fraction \in MinSimilarFractions :
    /\ call = NoCall
    /\ call' = [op |-> "find_similar_movies", movie_id |-> movie_id,
                min_similar_fraction |-> min_similar_fraction]
    /\ result' \in
         find_similar_movies(movie_id, movies, ratings, min_similar_fraction)
    /\ UNCHANGED <<movies, ratings>>

NextRank == FindSimilarMovies \/ Rerun

SpecRank == InitRank /\ [][NextRank]_vars

(***************************************************************************)
(* Properties of clean_title, checked under SpecNormalize.                 *)
(***************************************************************************)
Cleaned == call.op = "clean_title"

\* C5: clean_title returns a string with no leading or trailing whitespace
\* and no two consecutive spaces, "amelie 1996" for "Amélie (1996)" and ""
\* for a null title.  Violated: strip() runs before the punctuation becomes
\* blanks, so a title that ends (or starts) with punctuation keeps a blank.
C5_TrimmedAndCollapsed ==
  Cleaned =>
    /\ result # <<>> =>
         /\ result[1] \notin AsciiWhitespace
         /\ result[Len(result)] \notin AsciiWhitespace
    /\ \A i \in 1..(Len(result) - 1) : ~(result[i] = " " /\ result[i + 1] = " ")
    /\ call.title = Str(AmelieTitle) =>
         result = <<"a", "m", "e", "l", "i", "e", " ", "1", "9", "9", "6">>
    /\ call.title = None => result = <<>>

(***************************************************************************)
(* Properties of find_similar_movies, checked under SpecRank.              *)
(***************************************************************************)
Ranked == call.op = "find_similar_movies"

LikedBySomeone(m) ==
  \E i \in DOMAIN ratings : ratings[i].movieId = m /\ ratings[i].rating >= 4

\* C6: rank with a seed movie that no user rated at 4 or above returns an
\* empty sequence.
C6_NoFanEmptyResult ==
  (Ranked /\ ~LikedBySomeone(call.movie_id)) => result = <<>>

\* The seed was rated below 4 by a user who liked another movie, and the
\* ranking returned nothing.
C6_Witness ==
  /\ Ranked
  /\ result = <<>>
  /\ ~LikedBySomeone(call.movie_id)
  /\ \E i, j \in DOMAIN ratings :
       /\ ratings[i].movieId = call.movie_id
       /\ ratings[j].userId = ratings[i].userId
       /\ ratings[j].movieId # call.movie_id
       /\ ratings[j].rating >= 4

UniqueMovieIds ==
  \A i, j \in DOMAIN movies : movies[i].movieId = movies[j].movieId => i = j

\* C7: with a catalog of unique movie ids, rank returns at most 20 rows and
\* the rows are in non-increasing order of score.
C7_AtMostTwentySorted ==
  (Ranked /\ UniqueMovieIds) =>
    /\ Len(result) <= 20
    /\ \A i, j \in DOMAIN result :
         i < j => ~FracLess(result[i].score, result[j].score)

\* More than 20 movies were liked; the ranking over a catalog of unique ids
\* returned exactly 20 rows, the last one with a smaller score than the
\* first.
C7_Witness ==
  /\ Ranked
  /\ UniqueMovieIds
  /\ Cardinality({m \in 1..(HeadRows + MaxExtra) : LikedBySomeone(m)}) > 20
  /\ Len(result) = 20
  /\ FracLess(result[20].score, result[1].score)

\* C8: every row returned by rank has similarFraction in [0,1], allFraction
\* in [0,1] and a score >= 0, also when a user has several rating rows for
\* one movie.  Violated: value_counts counts rating rows, not users.
C8_FractionsInUnitInterval ==
  Ranked =>
    \A k \in DOMAIN result :
      /\ 0 <= result[k].similar.num
      /\ result[k].similar.num <= result[k].similar.den
      /\ 0 <= result[k].all.num
      /\ result[k].all.num <= result[k].all.den
      /\ 0 <= result[k].score.num
      /\ 0 < result[k].score.den

\* C9: every row returned by rank has a movieId that resolves to a movie of
\* the catalog.  Violated: the merge is a left join, which keeps a row
\* without a match and leaves its title missing.
C9_RowsResolveInCatalog ==
  Ranked =>
    \A k \in DOMAIN result :
      /\ \E i \in DOMAIN movies : movies[i].movieId = result[k].movieId
      /\ ~result[k].title.isna

\* C10: no row returned by rank has movieId equal to the seed.  Violated:
\* every fan liked the seed, so the seed is among the co-liked movies and
\* is never taken out.
C10_SeedNotReturned ==
  Ranked => \A k \in DOMAIN result : result[k].movieId # call.movie_id

\* The fans of the seed, and the counts the ranking is made of, read from
\* the ratings table.
Fans ==
  {ratings[i].userId :
     i \in {j \in DOMAIN ratings :
              ratings[j].movieId = call.movie_id /\ ratings[j].rating >= 4}}

FansWhoLiked(m) ==
  {u \in Fans :
     \E i \in DOMAIN ratings :
       /\ ratings[i].userId = u
       /\ ratings[i].movieId = m
       /\ ratings[i].rating >= 4}

LikedRowsOfFans(m) ==
  LET fans == Fans
  IN  Cardinality({i \in DOMAIN ratings :
                     /\ ratings[i].movieId = m
                     /\ ratings[i].rating >= 4
                     /\ ratings[i].userId \in fans})

LikedRows(m) ==
  Cardinality({i \in DOMAIN ratings :
                 ratings[i].movieId = m /\ ratings[i].rating >= 4})

RatedMovies == {ratings[i].movieId : i \in DOMAIN ratings}

ResultMovies == {result[k].movieId : k \in DOMAIN result}

\* C11: for every returned row, similarFraction is the number of fans who
\* also rated the movie >= 4, divided by the number of fans; in the fixture
\* with seed 10 and threshold 0 the row of movie 20 has similarFraction 1.
\* Violated: the numerator counts rating rows, so a fan with two liked rows
\* for one movie counts twice (the defect of C8).
C11_SimilarIsFractionOfFans ==
  Ranked =>
    /\ \A k \in DOMAIN result :
         result[k].similar.num * Cardinality(Fans)
           = Cardinality(FansWhoLiked(result[k].movieId)) * result[k].similar.den
    /\ (ratings = FixtureRatings /\ call.movie_id = 10
          /\ call.min_similar_fraction = Frac(0, 1)) =>
         \E k \in DOMAIN result :
           /\ result[k].movieId = 20
           /\ result[k].similar.num = result[k].similar.den

\* The movie's share of liked rows among the fans is above the threshold of
\* the call.
AboveThreshold(m) ==
  LikedRowsOfFans(m) * call.min_similar_fraction.den
    > call.min_similar_fraction.num * Cardinality(Fans)

\* C12: rank discards every movie whose similarFraction is less than or
\* equal to minSimilarFraction: every returned row has similarFraction
\* strictly greater than the threshold, no returned row is of a movie at or
\* below it, and when no movie exceeds it the result is empty.
C12_StrictThreshold ==
  Ranked =>
    /\ \A k \in DOMAIN result :
         /\ FracLess(call.min_similar_fraction, result[k].similar)
         /\ AboveThreshold(result[k].movieId)
    /\ (\A m \in RatedMovies : ~AboveThreshold(m)) => result = <<>>

\* A movie liked by exactly the threshold share of the fans (one fan of
\* two, threshold 1/2) is missing from a result that holds other movies.
C12_Witness ==
  /\ Ranked
  /\ result # <<>>
  /\ call.min_similar_fraction = Frac(1, 2)
  /\ \E m \in RatedMovies :
       /\ LikedRowsOfFans(m) * 2 = Cardinality(Fans)
       /\ m \notin ResultMovies

\* The movies that pass the threshold, and the users who liked any of them.
Survivors == {m \in RatedMovies : Fans # {} /\ AboveThreshold(m)}

Population ==
  LET survivors == Survivors
  IN  {ratings[i].userId :
         i \in {j \in DOMAIN ratings :
                  ratings[j].movieId \in survivors /\ ratings[j].rating >= 4}}

\* C13: for every returned row, allFraction is the number of ratings >= 4 of
\* the movie divided by the number of distinct users who rated >= 4 any
\* movie that passed the threshold (all of them, not only the 20 returned,
\* and not the whole user base), and score is similarFraction / allFraction.
C13_AllFractionAndScore ==
  Ranked =>
    LET population == Cardinality(Population)
    IN  \A k \in DOMAIN result :
      /\ FracEq(result[k].all, Frac(LikedRows(result[k].movieId), population))
      /\ result[k].score.num * result[k].similar.den * result[k].all.num
           = result[k].score.den * result[k].similar.num * result[k].all.den

\* 20 rows came back while a movie that passed the threshold was cut off;
\* a user who liked only that movie is in the population, a user who liked
\* only a movie outside the survivors is not, and the first row's
\* allFraction is 1/2.
C13_Witness ==
  /\ Ranked
  /\ Len(result) = 20
  /\ Survivors \ ResultMovies # {}
  /\ Cardinality(Population) = 2
  /\ \E u \in Population :
       \A i \in DOMAIN ratings :
         (ratings[i].userId = u /\ ratings[i].rating >= 4)
           => ratings[i].movieId \notin ResultMovies
  /\ \E i \in DOMAIN ratings :
       ratings[i].rating >= 4 /\ ratings[i].userId \notin Population
  /\ FracEq(result[1].all, Frac(1, 2))

\* The call got past the threshold test and found no user in the baseline:
\* the return of line 196.
ZeroBaselineReturn ==
  LET similar_users == similar_users_of(ratings, call.movie_id)
      sim_recs == sim_recs_of(ratings, similar_users)
      index == sim_frac_index(sim_recs, Cardinality(similar_users),
                              call.min_similar_fraction)
  IN  /\ similar_users # {}
      /\ index # {}
      /\ nunique_users(all_recs_of(ratings, index)) = 0

\* C17: every movie that passes the threshold has a rating >= 4 in the
\* baseline, so every returned row has allFraction > 0 and score > 0, and
\* the return on an empty baseline (num_all_users == 0) is never taken.
C17_BaselineNeverEmpty ==
  Ranked =>
    /\ \A k \in DOMAIN result :
         /\ result[k].all.num > 0
         /\ result[k].score.num > 0
    /\ ~ZeroBaselineReturn

\* A ranking with threshold 0 returned a movie that a single user liked.
C17_Witness ==
  /\ Ranked
  /\ call.min_similar_fraction = Frac(0, 1)
  /\ \E k \in DOMAIN result :
       /\ LikedRows(result[k].movieId) = 1
       /\ result[k].all.num = 1
       /\ result[k].score.num > 0

(***************************************************************************)
(* Further properties of search_movie (SpecSearch) and of clean_title      *)
(* (SpecNormalize).                                                        *)
(***************************************************************************)
\* The query, once cleaned and projected on the fitted vocabulary, is the
\* zero vector: none of its terms is in the index.
NoVocabularyOverlap ==
  LET vocab == vocabulary(corpus_of(movies))
      q == transform(clean_title(call.movie_name), vocab)
  IN  \A term \in vocab : q[term] = 0

\* C14: when the query has no vocabulary overlap with the index, search
\* returns an empty result for every minScore, 0 included.  Violated at
\* minScore = 0: the greatest similarity, 0, is not below the threshold, and
\* top_n rows of score 0 are returned.
C14_NoOverlapEmptyResult ==
  (Searched /\ NoVocabularyOverlap) => result = <<>>

\* C16: clean_title is idempotent, and the emptiness test of a query agrees
\* with that of its cleaned form.  Violated: the blank that replaces a final
\* punctuation mark is stripped only by a second pass (the defect of C5).
C16_Idempotent ==
  Cleaned =>
    /\ clean_title(Str(result)) = result
    /\ (strip(result) = <<>>) <=> (strip(clean_title(Str(result))) = <<>>)

(***************************************************************************)
(* Specification of the app's search tab (app.py, "with tab1:").  Every    *)
(* interaction with a widget makes Streamlit run the script from the top   *)
(* with the widget values of the browser; call holds the event and the     *)
(* widget values of the last run, result the page that run rendered.       *)
(* Positions are counted from 1 here and from 0 in the code.               *)
(***************************************************************************)
\* The search tab with nothing under the Search button: no warning, no
\* candidates, no selector (movie_select = 0), find_similar_movies not
\* called (selected_movie_id = 0).
BlankPage ==
  [warning |-> FALSE, no_matches |-> FALSE, matches |-> <<>>,
   movie_select |-> 0, selected_movie_id |-> 0, recs |-> <<>>]

\* st.selectbox(..., key="movie_select"): the value kept for the key when
\* the selector was rendered by the run before and that value is still an
\* option, the first option otherwise.
selectbox(options, movie_select) ==
  IF movie_select \in 1..Len(options) THEN movie_select ELSE 1

\* The part of the page under the selector, for the candidates of one search.
recommendations(matches, movie_select, mv, rt) ==
  LET selected_idx == selectbox(matches, movie_select)
      selected_movie_id == matches[selected_idx].movieId
  IN  {[warning |-> FALSE, no_matches |-> FALSE, matches |-> matches,
        movie_select |-> selected_idx,
        selected_movie_id |-> selected_movie_id, recs |-> recs] :
         recs \in find_similar_movies(selected_movie_id, mv, rt, Frac(1, 10))}

\* The pages one run of the script may render.  The whole search logic is
\* inside "if search_btn:"; a widget that a run does not render loses its
\* value.
tab1(search_btn, query, min_score, top_n, movie_select, mv, rt) ==
  IF ~search_btn THEN {BlankPage}
  ELSE IF strip(query) = <<>> THEN {[BlankPage EXCEPT !.warning = TRUE]}
  ELSE UNION {
         IF matches = <<>> THEN {[BlankPage EXCEPT !.no_matches = TRUE]}
         ELSE recommendations(matches, movie_select, mv, rt)
       : matches \in search_movie(Str(query), mv, top_n, min_score)}

\* The catalogs of the app runs: those of fewer than MaxMovies movies on
\* which the index can be fitted.
AppCatalogs == {mv \in Catalogs : Len(mv) < MaxMovies /\ IndexBuilt(mv)}

\* The ratings tables of the app runs.
AppTables == {rt \in SmallTables : Len(rt) <= 1}

\* What st.text_input may return: a string, never a missing value.  One
\* query of each kind: empty, blank, punctuation only (not blank, but empty
\* once cleaned), without and with a term of the index.
AppQueries == {<<>>, <<" ">>, <<"(">>, <<"a">>, <<"a", "a">>}

\* The page of the first run: the Search button has not been clicked.
InitApp ==
  /\ movies \in AppCatalogs
  /\ ratings \in AppTables
  /\ call = [op |-> "script_run", event |-> "load", search_btn |-> FALSE]
  /\ result = BlankPage

\* The user fills the inputs and clicks Search: st.button returns True in
\* the run that the click triggers.
ClickSearch ==
  \E query \in AppQueries, top_n \in 1..MaxTopN, min_score \in 0..ScoreScale :
    /\ call' = [op |-> "script_run", event |-> "click_search",
                search_btn |-> TRUE, query |-> query, top_n |-> top_n,
                min_score |-> min_score]
    /\ result' \in tab1(TRUE, query, min_score, top_n, result.movie_select,
                        movies, ratings)
    /\ UNCHANGED <<movies, ratings>>

\* The user picks another candidate in the selector that the page shows:
\* the run that the change triggers gets the new value of movie_select, and
\* st.button returns False, as nobody clicked Search.
PickMovie ==
  \E selected_idx \in 1..Len(result.matches) :
    /\ result.movie_select # 0
    /\ selected_idx # result.movie_select
    /\ call' = [op |-> "script_run", event |-> "pick_movie",
                search_btn |-> FALSE, movie_select |-> selected_idx,
                picked_movie_id |-> result.matches[selected_idx].movieId]
    /\ result' \in tab1(FALSE, <<>>, 0, 1, selected_idx, movies, ratings)
    /\ UNCHANGED <<movies, ratings>>

NextApp == ClickSearch \/ PickMovie

SpecApp == InitApp /\ [][NextApp]_vars

\* C15: after a search has shown its candidates, the run that follows the
\* pick of a candidate in the selector calls find_similar_movies with the
\* movieId of the picked candidate and shows its recommendations.  Violated:
\* in that run search_btn is False, the block under "if search_btn:" is
\* skipped, and the page shows neither selector nor recommendations.
C15_PickedCandidateRecommended ==
  (call.op = "script_run" /\ call.event = "pick_movie") =>
    /\ result.selected_movie_id = call.picked_movie_id
    /\ result.recs \in find_similar_movies(call.picked_movie_id, movies,
                                           ratings, Frac(1, 10))

=============================================================================
